---- MODULE Spec2Model ----
(***************************************************************************)
(* Model of the resumable translation pipeline of ai-book-translator:      *)
(*   - ProgressTracker            (src/src/translation/progress.py)        *)
(*   - chunk translation / retry  (translator.py, chapter_translator.py,   *)
(*                                 chapter_processor.py)                   *)
(*   - chapter processing         (translator.py, chapter_processor.py)    *)
(*   - translate_book             (translator.py, book_translator.py)      *)
(*   - TextChunker.split_text,                                             *)
(*     estimate_chunks            (chunker.py)                             *)
(*   - the chapter cache          (chapter_cache.py, translator.py)        *)
(*                                                                         *)
(* Specifications: Spec (the translator's flows), SpecTracker (the tracker *)
(* called directly), SpecTimed (the same with time passing), SpecChunker   *)
(* (one split_text or estimate_chunks call), SpecCache (save and load of   *)
(* the chapter cache), and with faults of the file system: SpecFaults (the *)
(* flows of a translator with a progress file whose writes may fail),      *)
(* SpecTrackerFaults (the tracker and a progress file that gets damaged),  *)
(* SpecCacheFaults (the cache and a cache file that gets damaged).         *)
(*                                                                         *)
(* Strings are sequences of one-character strings, so that str.strip()    *)
(* and "\n\n".join() are computed and not assumed.  The progress file is   *)
(* what _save_progress writes (chapter keys as strings) and is read back   *)
(* by load_progress.  Writes succeed while writable holds; only the fault  *)
(* specifications change it.                                               *)
(*                                                                         *)
(* BookTranslator._translate_chapter/_translate_chunk (translator.py) and  *)
(* ChapterTranslator.translate_chapter/_translate_chunk                    *)
(* (chapter_translator.py) are the same code line for line (the tracker is *)
(* an attribute in one and a parameter in the other); impl = "translator"  *)
(* stands for both, impl = "chapter_processor" for ChapterProcessor.       *)
(***************************************************************************)
EXTENDS Integers, Sequences, FiniteSets, TLC

\* ---------------------------------------------------------------- bounds
MaxChapters == 2
MaxChunks == 2
MaxRetriesBound == 2
MaxErrors == 2
MaxClock == 1
MaxTextLen == 3
MaxChunkSize == 3
MaxOverlap == 1
MaxMinChunk == 2
MaxRecords == 2
MaxSaves == 2

Chapters == 1..MaxChapters
ChunkCounts == 0..MaxChunks

\* ------------------------------------------------------------- text model
Space == " "

\* The response texts the completion-service stub can be set up with.
Texts == { <<"a">>, <<Space, "a">>, <<Space>> }

\* the characters str.strip() removes, as far as the texts here have them
Whitespace == {Space, "\n"}

RECURSIVE LStrip(_)
LStrip(s) == IF s = <<>> THEN <<>>
             ELSE IF Head(s) \in Whitespace THEN LStrip(Tail(s)) ELSE s

RECURSIVE RStrip(_)
RStrip(s) == IF s = <<>> THEN <<>>
             ELSE IF s[Len(s)] \in Whitespace THEN RStrip(SubSeq(s, 1, Len(s) - 1)) ELSE s

\* str.strip()
Strip(s) == RStrip(LStrip(s))

\* "\n\n".join(parts)
RECURSIVE Join(_)
Join(parts) == IF parts = <<>> THEN <<>>
               ELSE IF Len(parts) = 1 THEN parts[1]
               ELSE parts[1] \o <<"\n", "\n">> \o Join(Tail(parts))

\* ------------------------------------------------------------ TextChunker
\* the texts split_text is called with: every string up to MaxTextLen over
\* a letter, a sentence end, the two whitespace characters and the tag brackets
Alphabet == {"a", ".", Space, "\n", "<", ">"}

ChunkerTexts == UNION {[1..n -> Alphabet] : n \in 0..MaxTextLen}

\* TextChunker(max_chunk_size, overlap_size, preserve_html, min_chunk_size)
ChunkerConfigs ==
    [max_chunk_size : 1..MaxChunkSize, overlap_size : 0..MaxOverlap,
     preserve_html : BOOLEAN, min_chunk_size : 0..MaxMinChunk]

\* faulty variant: only the empty string counts as blank
IsBlank_mut(text) == text = <<>>

\* not text or not text.strip()
IsBlank(text) == text = <<>> \/ Strip(text) = <<>>

\* re.search(r"<[^>]+>", text)
HasHtmlContent(text) ==
    \E i \in 1..Len(text) : \E j \in (i + 2)..Len(text) :
        /\ text[i] = "<"
        /\ text[j] = ">"
        /\ \A k \in (i + 1)..(j - 1) : text[k] # ">"

Returned(chunks) == [raised |-> "", chunks |-> chunks]

Raised(e) == [raised |-> e, chunks |-> <<>>]

\* _split_html_by_sentences: after the sentences are split, logger.debug is
\* evaluated; logger is a local name of split_text and no name of this
\* function or of the module, so the lookup raises NameError before the loop
SplitHtmlBySentences(text, config) == Raised("NameError")

\* _split_by_sentences: the same unbound logger, before the loop
SplitBySentences(text, config) == Raised("NameError")

\* split_text
SplitText(text, config) ==
    IF IsBlank(text) THEN Returned(<<>>)
    ELSE IF config.preserve_html /\ HasHtmlContent(text)
    THEN SplitHtmlBySentences(text, config)
    ELSE SplitBySentences(text, config)

\* a // b of Python for b # 0: the quotient rounded towards minus infinity
FloorDiv(a, b) == IF b > 0 THEN a \div b ELSE (0 - a) \div (0 - b)

\* no estimate has been returned
NoEstimate == -1

\* faulty variant: the quotient is taken for every text that is not empty
EstimateChunks_mut(text, config) ==
    IF text = <<>> THEN [raised |-> "", estimate |-> 0]
    ELSE LET effective_chunk_size == config.max_chunk_size - config.overlap_size
             q == FloorDiv(Len(text) + effective_chunk_size - 1, effective_chunk_size)
         IN IF effective_chunk_size = 0
            THEN [raised |-> "ZeroDivisionError", estimate |-> NoEstimate]
            ELSE [raised |-> "", estimate |-> IF q > 1 THEN q ELSE 1]

\* estimate_chunks: 0 for an empty text, 1 for a text that fits one chunk, else
\* max(1, (text_length + effective_chunk_size - 1) // effective_chunk_size)
EstimateChunks(text, config) ==
    IF text = <<>> THEN [raised |-> "", estimate |-> 0]
    ELSE IF Len(text) <= config.max_chunk_size THEN [raised |-> "", estimate |-> 1]
    ELSE LET effective_chunk_size == config.max_chunk_size - config.overlap_size
             q == FloorDiv(Len(text) + effective_chunk_size - 1, effective_chunk_size)
         IN IF effective_chunk_size = 0
            THEN [raised |-> "ZeroDivisionError", estimate |-> NoEstimate]
            ELSE [raised |-> "", estimate |-> IF q > 1 THEN q ELSE 1]

\* no split_text call has been made
NoSplit == [pc |-> "none", text |-> <<>>,
            config |-> [max_chunk_size |-> 1, overlap_size |-> 0,
                        preserve_html |-> TRUE, min_chunk_size |-> 0],
            result |-> Returned(<<>>), estimate |-> NoEstimate]

\* ------------------------------------------------------- ProgressTracker
\* total_chunks: Optional[int] = None
NoneArg == -1

NoChapters == [c \in {} |-> 0]

\* self._progress = None
NoProgress == [started |-> FALSE, total_chapters |-> 0, completed_chapters |-> 0,
               current_chapter |-> 0, start_time |-> 0, last_update_time |-> 0,
               chapters |-> NoChapters]

IsCompleted(cp) == cp.completed_chunks >= cp.total_chunks

CountCompleted(p) ==
    Cardinality({c \in DOMAIN p.chapters : IsCompleted(p.chapters[c])})

\* start_translation at time t
StartTranslationOp(p, total, t) ==
    IF p.started
    THEN [p EXCEPT !.total_chapters = total,
                   !.last_update_time = t,
                   !.completed_chapters = CountCompleted(p)]
    ELSE [started |-> TRUE, total_chapters |-> total, completed_chapters |-> 0,
          current_chapter |-> 1, start_time |-> t, last_update_time |-> t,
          chapters |-> NoChapters]

\* ChapterProgress(chapter_number, total_chunks, completed_chunks=0, start_time,
\* last_update_time); estimated_completion_time stays None and is left out
NewChapterProgress(ch, n, t) ==
    [chapter_number |-> ch, total_chunks |-> n, completed_chunks |-> 0,
     start_time |-> t, last_update_time |-> t, error_count |-> 0]

\* faulty variant: an existing chapter is started afresh
StartChapterOp_mut(p, ch, n, t) ==
    [p EXCEPT !.chapters = (ch :> NewChapterProgress(ch, n, t)) @@ p.chapters,
              !.current_chapter = ch,
              !.last_update_time = t]

\* start_chapter on a started tracker, at time t
StartChapterOp(p, ch, n, t) ==
    LET chs == IF ch \in DOMAIN p.chapters
               THEN [p.chapters EXCEPT ![ch].total_chunks = n,
                                       ![ch].last_update_time = t]
               ELSE (ch :> NewChapterProgress(ch, n, t)) @@ p.chapters
    IN [p EXCEPT !.chapters = chs, !.current_chapter = ch, !.last_update_time = t]

\* faulty variant: an unknown chapter without total_chunks is not refused
UpdateProgressRaises_mut(p, ch, n) == ~p.started

\* update_progress raises ProgressError
UpdateProgressRaises(p, ch, n) ==
    \/ ~p.started
    \/ ch \notin DOMAIN p.chapters /\ n = NoneArg

\* update_progress when it does not raise, at time t
UpdateProgressOp(p, ch, c, n, t) ==
    LET q == IF ch \in DOMAIN p.chapters THEN p ELSE StartChapterOp(p, ch, n, t)
        cp1 == [q.chapters[ch] EXCEPT !.completed_chunks = c]
        cp2 == IF n # NoneArg THEN [cp1 EXCEPT !.total_chunks = n] ELSE cp1
        cp3 == [cp2 EXCEPT !.last_update_time = t]
    IN [q EXCEPT !.chapters[ch] = cp3, !.last_update_time = t]

\* faulty variant: completed_chapters is counted up instead of recomputed
CompleteChapterOp_mut(p, ch, t) ==
    IF ch \in DOMAIN p.chapters
    THEN [p EXCEPT !.chapters[ch].completed_chunks = p.chapters[ch].total_chunks,
                   !.chapters[ch].last_update_time = t,
                   !.completed_chapters = @ + 1]
    ELSE p

\* complete_chapter on a started tracker, at time t
CompleteChapterOp(p, ch, t) ==
    IF ch \in DOMAIN p.chapters
    THEN LET q == [p EXCEPT !.chapters[ch].completed_chunks = p.chapters[ch].total_chunks,
                            !.chapters[ch].last_update_time = t]
         IN [q EXCEPT !.completed_chapters = CountCompleted(q)]
    ELSE p

\* faulty variant: the error is not counted
RecordErrorOp_mut(p, ch) == p

RecordErrorOp(p, ch) ==
    IF p.started /\ ch \in DOMAIN p.chapters
    THEN [p EXCEPT !.chapters[ch].error_count = @ + 1]
    ELSE p

GetChapterProgress(p, ch) ==
    IF ~p.started \/ ch \notin DOMAIN p.chapters THEN 0
    ELSE p.chapters[ch].completed_chunks

\* str(chapter_num): the decimal digits of a natural number
Digits == <<"0", "1", "2", "3", "4", "5", "6", "7", "8", "9">>

RECURSIVE StrOf(_)
StrOf(n) == IF n < 10 THEN <<Digits[n + 1]>>
            ELSE StrOf(n \div 10) \o <<Digits[(n % 10) + 1]>>

DigitValue(d) == (CHOOSE i \in 1..10 : Digits[i] = d) - 1

\* int(chapter_num_str)
RECURSIVE IntOf(_)
IntOf(s) == IF Len(s) = 1 THEN DigitValue(s[1])
            ELSE 10 * IntOf(SubSeq(s, 1, Len(s) - 1)) + DigitValue(s[Len(s)])

\* the progress file does not exist
NoFile == [exists |-> FALSE]

\* a progress file that json.load or the rebuilding of the state fails on
DamagedFile == [exists |-> TRUE, valid |-> FALSE]

\* asdict(self._progress) with the chapter keys turned into strings, as
\* json.dump writes it
Serialize(p) ==
    [exists |-> TRUE,
     valid |-> TRUE,
     total_chapters |-> p.total_chapters,
     completed_chapters |-> p.completed_chapters,
     current_chapter |-> p.current_chapter,
     start_time |-> p.start_time,
     last_update_time |-> p.last_update_time,
     chapters |-> [k \in {StrOf(c) : c \in DOMAIN p.chapters} |-> p.chapters[IntOf(k)]]]

\* TranslationProgress rebuilt from the json data: chapters[int(key)] =
\* ChapterProgress(**chapter_data)
Deserialize(f) ==
    [started |-> TRUE,
     total_chapters |-> f.total_chapters,
     completed_chapters |-> f.completed_chapters,
     current_chapter |-> f.current_chapter,
     start_time |-> f.start_time,
     last_update_time |-> f.last_update_time,
     chapters |-> [c \in {IntOf(k) : k \in DOMAIN f.chapters} |-> f.chapters[StrOf(c)]]]

\* faulty variant: the state is not written
SaveProgress_mut(p, file) == file

\* _save_progress: with a state, the file is overwritten with it
SaveProgress(p, file) == IF p.started THEN Serialize(p) ELSE file

\* faulty variant: a file that cannot be loaded leaves a started, empty state
LoadProgress_mut(file) ==
    IF file.exists
    THEN (IF file.valid THEN Deserialize(file)
          ELSE [NoProgress EXCEPT !.started = TRUE])
    ELSE NoProgress

\* __init__ / load_progress: the state is what the file holds, if it exists;
\* load_progress raises ProgressError on a file it cannot load and assigns
\* nothing, and __init__ catches the error and prints a warning
LoadProgress(file) ==
    IF file.exists
    THEN (IF file.valid THEN Deserialize(file) ELSE NoProgress)
    ELSE NoProgress

ErrorCount(p, ch) == IF p.started /\ ch \in DOMAIN p.chapters
                     THEN p.chapters[ch].error_count ELSE 0

RECURSIVE SumErrors(_, _)
SumErrors(p, chs) ==
    IF chs = {} THEN 0
    ELSE LET c == CHOOSE c \in chs : TRUE
         IN p.chapters[c].error_count + SumErrors(p, chs \ {c})

\* errors recorded over all chapters (the model stops recording at MaxErrors)
TotalErrors(p) == SumErrors(p, DOMAIN p.chapters)


\* ------------------------------------------------------------------ state
VARIABLES
    progress,     \* ProgressTracker._progress
    disk,         \* the progress file (NoFile: no file)
    lastOp,       \* the last tracker operation called directly, and whether it raised
    clock,        \* what time.time() returns
    cfg,          \* [impl, hasTracker, max_retries]: how the translator was constructed
    nChunks,      \* chapter number -> number of chunks the chunker yields for it
    stub,         \* chunk index -> text the completion-service stub answers with
    pc,           \* "idle" | "chunks" | "done" | "raised": position of chapter processing
    chap,         \* chapter_num of the invocation
    idx,          \* loop variable i
    cursor0,      \* completed_chunks of the chapter when the invocation began
    err0,         \* error_count of the chapter when the invocation began
    translated,   \* translated_chunks
    sent,         \* indices of the chunks sent to the completion service in this invocation
    call,         \* the running _translate_chunk call: [attempt, hist, slept]
    last,         \* the last finished _translate_chunk call
    exc,          \* exception that left the invocation ("" if none)
    failedChunk,  \* index of the chunk whose translation failed (-1 if none)
    content,      \* content returned by the invocation
    book,         \* translate_book: [pc, cur, from, to, cause]
    translated_chapters,  \* BookTranslator.translated_chapters
    cache,        \* the chapter-cache file: [exists, valid, chapters]
    chunker,      \* a split_text call: [pc, text, config, result]
    cacheOp,      \* chapter-cache calls: [op, records of the last save, saves]
    writable      \* whether open(file, 'w') on the progress and cache files succeeds

vars == <<progress, disk, lastOp, clock, cfg, nChunks, stub, pc, chap, idx, cursor0, err0,
          translated, sent, call, last, exc, failedChunk, content,
          book, translated_chapters, cache, chunker, cacheOp, writable>>

\* what no step of the translator or the tracker changes
cfgVars == <<cfg, nChunks, stub, chunker, cacheOp, writable>>
invVars == <<pc, chap, idx, cursor0, err0, translated, sent, call, last, exc,
             failedChunk, content>>
bookVars == <<book, translated_chapters, cache>>

Impls == {"translator", "chapter_processor"}

NoCall == [attempt |-> 0, hist |-> <<>>, slept |-> "none"]
NoLast == [status |-> "none", exc |-> "", value |-> <<>>, hist |-> <<>>,
           cursorBefore |-> 0, chunk |-> 0]
NoOp == [op |-> "none", raised |-> FALSE]
NoBook == [pc |-> "none", cur |-> 0, from |-> 0, to |-> 0, cause |-> ""]
NoCache == [exists |-> FALSE, valid |-> TRUE, chapters |-> <<>>]
NoCacheOp == [op |-> "none", records |-> <<>>, saves |-> 0]

InvInit ==
    /\ pc = "idle"
    /\ chap = 0
    /\ idx = 0
    /\ cursor0 = 0
    /\ err0 = 0
    /\ translated = <<>>
    /\ sent = {}
    /\ call = NoCall
    /\ last = NoLast
    /\ exc = ""
    /\ failedChunk = -1
    /\ content = <<>>
    /\ book = NoBook
    /\ translated_chapters = <<>>
    /\ cache = NoCache

\* the translator's flows: no decision of theirs reads a timestamp, and
\* time.time() is kept at one value
Init ==
    /\ progress = NoProgress
    /\ disk = NoFile
    /\ lastOp = NoOp
    /\ clock = 0
    /\ cfg \in [impl : Impls, hasTracker : BOOLEAN, max_retries : 0..MaxRetriesBound]
    /\ nChunks \in [Chapters -> ChunkCounts]
    /\ stub \in [0..(MaxChunks - 1) -> Texts]
    /\ chunker = NoSplit
    /\ cacheOp = NoCacheOp
    /\ writable = TRUE
    /\ InvInit

\* --------------------------------------------- ProgressTracker operations
\* called directly, with any arguments (SpecTracker)

\* what lastOp records: the operation and whether it raised
Called(op, raised) == [op |-> op, raised |-> raised]

\* _save_progress: the file after the call; when open(file, 'w') fails the file
\* is left as it was and ProgressError is raised
WriteProgress(p, file) == IF writable THEN SaveProgress(p, file) ELSE file

\* _save_progress raises ProgressError
SaveRaises(p) == p.started /\ ~writable

\* update_progress whose _save_progress raises: for an unknown chapter the
\* error leaves the inner start_chapter, before completed_chunks is set
UpdateProgressUnsaved(p, ch, c, n, t) ==
    IF ch \in DOMAIN p.chapters
    THEN UpdateProgressOp(p, ch, c, n, t)
    ELSE StartChapterOp(p, ch, n, t)

StartTranslation(total) ==
    /\ progress' = StartTranslationOp(progress, total, clock)
    /\ disk' = WriteProgress(progress', disk)
    /\ lastOp' = Called("start_translation", SaveRaises(progress'))
    /\ UNCHANGED <<clock, cfgVars, invVars, bookVars>>

StartChapter(ch, n) ==
    /\ IF ~progress.started
       THEN /\ lastOp' = Called("start_chapter", TRUE)
            /\ UNCHANGED <<progress, disk>>
       ELSE /\ progress' = StartChapterOp(progress, ch, n, clock)
            /\ disk' = WriteProgress(progress', disk)
            /\ lastOp' = Called("start_chapter", SaveRaises(progress'))
    /\ UNCHANGED <<clock, cfgVars, invVars, bookVars>>

UpdateProgress(ch, c, n) ==
    /\ IF UpdateProgressRaises(progress, ch, n)
       THEN /\ lastOp' = Called("update_progress", TRUE)
            /\ UNCHANGED <<progress, disk>>
       ELSE /\ progress' = IF writable
                            THEN UpdateProgressOp(progress, ch, c, n, clock)
                            ELSE UpdateProgressUnsaved(progress, ch, c, n, clock)
            /\ disk' = WriteProgress(progress', disk)
            /\ lastOp' = Called("update_progress", SaveRaises(progress'))
    /\ UNCHANGED <<clock, cfgVars, invVars, bookVars>>

CompleteChapter(ch) ==
    /\ IF ~progress.started
       THEN /\ lastOp' = Called("complete_chapter", TRUE)
            /\ UNCHANGED <<progress, disk>>
       ELSE /\ progress' = CompleteChapterOp(progress, ch, clock)
            /\ disk' = IF ch \in DOMAIN progress.chapters
                       THEN WriteProgress(progress', disk) ELSE disk
            /\ lastOp' = Called("complete_chapter",
                                ch \in DOMAIN progress.chapters /\ SaveRaises(progress'))
    /\ UNCHANGED <<clock, cfgVars, invVars, bookVars>>

RecordError(ch) ==
    /\ TotalErrors(progress) < MaxErrors
    /\ progress' = RecordErrorOp(progress, ch)
    /\ disk' = IF progress.started /\ ch \in DOMAIN progress.chapters
               THEN WriteProgress(progress', disk) ELSE disk
    /\ lastOp' = Called("record_error",
                        ch \in DOMAIN progress.chapters /\ SaveRaises(progress'))
    /\ UNCHANGED <<clock, cfgVars, invVars, bookVars>>

\* a new process constructs a tracker on the same progress file
Construct ==
    /\ progress' = LoadProgress(disk)
    /\ lastOp' = Called("__init__", FALSE)
    /\ UNCHANGED <<disk, clock, cfgVars, invVars, bookVars>>

\* cleanup: the file is unlinked and the state dropped
Cleanup ==
    /\ progress' = NoProgress
    /\ disk' = NoFile
    /\ lastOp' = Called("cleanup", FALSE)
    /\ UNCHANGED <<clock, cfgVars, invVars, bookVars>>

\* time passes: the next time.time() returns a later value
Tick ==
    /\ clock < MaxClock
    /\ clock' = clock + 1
    /\ UNCHANGED <<progress, disk, lastOp, cfgVars, invVars, bookVars>>

TrackerNext ==
    \/ \E total \in Chapters : StartTranslation(total)
    \/ \E ch \in Chapters, n \in ChunkCounts : StartChapter(ch, n)
    \/ \E ch \in Chapters, c \in ChunkCounts, n \in ChunkCounts \cup {NoneArg} :
          UpdateProgress(ch, c, n)
    \/ \E ch \in Chapters : CompleteChapter(ch)
    \/ \E ch \in Chapters : RecordError(ch)
    \/ Construct
    \/ Cleanup

\* the tracker on its own: the translator's variables stay at fixed values
InitTracker ==
    /\ progress = NoProgress
    /\ disk = NoFile
    /\ lastOp = NoOp
    /\ clock = 0
    /\ cfg = [impl |-> "translator", hasTracker |-> TRUE, max_retries |-> 1]
    /\ nChunks = [c \in Chapters |-> 0]
    /\ stub = [i \in 0..(MaxChunks - 1) |-> <<"a">>]
    /\ chunker = NoSplit
    /\ cacheOp = NoCacheOp
    /\ writable = TRUE
    /\ InvInit

SpecTracker == InitTracker /\ [][TrackerNext]_vars

\* one run of the tracker with time passing between its calls
TimedNext ==
    \/ \E total \in Chapters : StartTranslation(total)
    \/ \E ch \in Chapters, n \in ChunkCounts : StartChapter(ch, n)
    \/ \E ch \in Chapters, c \in ChunkCounts, n \in ChunkCounts \cup {NoneArg} :
          UpdateProgress(ch, c, n)
    \/ \E ch \in Chapters : CompleteChapter(ch)
    \/ \E ch \in Chapters : RecordError(ch)
    \/ Tick

SpecTimed == InitTracker /\ [][TimedNext]_vars

\* ------------------------------------------------------ TextChunker calls
\* split_text and estimate_chunks are functions of (text, config): each
\* behaviour is one call of one of them

SplitTextCall ==
    /\ chunker.pc = "called"
    /\ LET r == SplitText(chunker.text, chunker.config)
       IN chunker' = [chunker EXCEPT !.result = r,
                                     !.pc = IF r.raised = "" THEN "returned" ELSE "raised"]
    /\ UNCHANGED <<progress, disk, lastOp, clock, cfg, nChunks, stub, cacheOp, writable, invVars,
                   bookVars>>

\* estimate_chunks(text)
EstimateChunksCall ==
    /\ chunker.pc = "called"
    /\ LET r == EstimateChunks(chunker.text, chunker.config)
       IN chunker' = [chunker EXCEPT !.estimate = r.estimate,
                                     !.pc = IF r.raised = "" THEN "estimated"
                                            ELSE "estimate_raised"]
    /\ UNCHANGED <<progress, disk, lastOp, clock, cfg, nChunks, stub, cacheOp, writable, invVars,
                   bookVars>>

InitChunker ==
    /\ progress = NoProgress
    /\ disk = NoFile
    /\ lastOp = NoOp
    /\ clock = 0
    /\ cfg = [impl |-> "translator", hasTracker |-> FALSE, max_retries |-> 1]
    /\ nChunks = [c \in Chapters |-> 0]
    /\ stub = [i \in 0..(MaxChunks - 1) |-> <<"a">>]
    /\ chunker \in [pc : {"called"}, text : ChunkerTexts, config : ChunkerConfigs,
                     result : {Returned(<<>>)}, estimate : {NoEstimate}]
    /\ cacheOp = NoCacheOp
    /\ writable = TRUE
    /\ InvInit

ChunkerNext ==
    \/ SplitTextCall
    \/ EstimateChunksCall

SpecChunker == InitChunker /\ [][ChunkerNext]_vars


\* ------------------------------------------------------ chunk translation
\* _translate_chunk: one step per call to llm.complete(prompt)

Outcomes == {"text", "rate_limit", "other"}

\* the value _translate_chunk would return for a response with this text
ResponseValue(text) == Strip(text)

\* the attempt failed: the service raised, or (ChapterProcessor only) the
\* stripped text is empty and "Empty translation returned from LLM" is raised
AttemptFailed(im, out, text) ==
    \/ out # "text"
    \/ im = "chapter_processor" /\ ResponseValue(text) = <<>>

\* faulty variant: gives up one attempt early
MayRetry_mut(attempt, maxRetries) == attempt < maxRetries - 2

\* attempt < self.max_retries - 1
MayRetry(attempt, maxRetries) == attempt < maxRetries - 1

\* what _translate_chunk raises when the last attempt failed
FinalException(im) == IF im = "translator" THEN "TranslationError" ELSE "Exception"

\* time.sleep before the next attempt
SleepFor(im, out) ==
    IF im = "translator"
    THEN (IF out = "rate_limit" THEN "retry_delay" ELSE "short")
    ELSE "retry_delay"

\* for attempt in range(self.max_retries) never runs
NoAttempt(maxRetries) == maxRetries <= 0

\* ------------------------------------------------------ chapter processing
\* _translate_chapter (translator.py) and process_chapter (chapter_processor.py)

\* faulty variant: the loop ignores start_chunk (enumerate(chunks))
LoopStart_mut(im, startChunk) == 0

\* first index of enumerate(chunks[start_chunk:], start=start_chunk)
LoopStart(im, startChunk) == IF im = "translator" THEN startChunk ELSE 0

\* ChapterProcessor: get_chapter_progress(chapter_num) > i  -> continue
AlreadyCompleted(im, hasTracker, p, ch, i) ==
    im = "chapter_processor" /\ hasTracker /\ GetChapterProgress(p, ch) > i

\* number of record_error calls one failed chunk leads to
ErrorRecords(im) == IF im = "translator" THEN 1 ELSE 2

RECURSIVE RecordErrors(_, _, _)
RecordErrors(p, ch, k) == IF k = 0 THEN p ELSE RecordErrors(RecordErrorOp(p, ch), ch, k - 1)

\* what process_chapter / _translate_chapter lets out of an exception raised
\* before the chunk loop: ChapterProcessor wraps everything in TranslationError
PreludeException(im, e) == IF im = "translator" THEN e ELSE "TranslationError"

\* a tracker call of the translator that saves has its _save_progress raise
WriteFails == cfg.hasTracker /\ ~writable

Raise(e, p) ==
    /\ pc' = "raised"
    /\ exc' = e
    /\ progress' = p
    /\ disk' = IF cfg.hasTracker THEN WriteProgress(p, disk) ELSE disk

\* the caller computes start_chunk (translate_book: get_chapter_progress) and
\* invokes chapter processing: text extraction, split_text, start_chapter
BeginChapter(ch) ==
    /\ TotalErrors(progress) + ErrorRecords(cfg.impl) <= MaxErrors
    /\ LET n == nChunks[ch]
           k == IF cfg.hasTracker THEN GetChapterProgress(progress, ch) ELSE 0
       IN /\ chap' = ch
          /\ cursor0' = k
          /\ err0' = ErrorCount(progress, ch)
          /\ translated' = <<>>
          /\ sent' = {}
          /\ call' = NoCall
          /\ last' = NoLast
          /\ failedChunk' = -1
          /\ content' = <<>>
          /\ IF cfg.impl = "chapter_processor" /\ n = 0
             THEN \* no text extracted: {"content": ""} without any tracker call
                  /\ pc' = "done"
                  /\ exc' = ""
                  /\ idx' = 0
                  /\ UNCHANGED <<progress, disk>>
             ELSE IF cfg.hasTracker /\ ~progress.started
             THEN \* start_chapter raises ProgressError
                  /\ idx' = 0
                  /\ Raise(PreludeException(cfg.impl, "ProgressError"), progress)
             ELSE IF WriteFails
             THEN \* start_chapter's _save_progress raises ProgressError;
                  \* ChapterProcessor's handler calls record_error, whose
                  \* _save_progress raises it again
                  /\ idx' = 0
                  /\ Raise("ProgressError",
                           IF cfg.impl = "chapter_processor"
                           THEN RecordErrorOp(StartChapterOp(progress, ch, n, clock), ch)
                           ELSE StartChapterOp(progress, ch, n, clock))
             ELSE /\ pc' = "chunks"
                  /\ exc' = ""
                  /\ idx' = LoopStart(cfg.impl, k)
                  /\ progress' = IF cfg.hasTracker
                                 THEN StartChapterOp(progress, ch, n, clock) ELSE progress
                  /\ disk' = IF cfg.hasTracker THEN WriteProgress(progress', disk) ELSE disk

\* TextChunker.split_text reaches logger.debug in _split_by_sentences /
\* _split_html_by_sentences, where no name logger is bound: NameError for
\* every text that is not empty
BeginChapterSplitRaises(ch) ==
    /\ nChunks[ch] > 0
    /\ TotalErrors(progress) + ErrorRecords(cfg.impl) <= MaxErrors
    /\ chap' = ch
    /\ cursor0' = IF cfg.hasTracker THEN GetChapterProgress(progress, ch) ELSE 0
    /\ err0' = ErrorCount(progress, ch)
    /\ translated' = <<>>
    /\ sent' = {}
    /\ call' = NoCall
    /\ last' = NoLast
    /\ failedChunk' = -1
    /\ content' = <<>>
    /\ idx' = 0
    /\ Raise(IF /\ cfg.impl = "chapter_processor"
                /\ WriteFails
                /\ progress.started
                /\ ch \in DOMAIN progress.chapters
             THEN "ProgressError"  \* from record_error in the handler
             ELSE PreludeException(cfg.impl, "NameError"),
             IF cfg.impl = "chapter_processor" /\ cfg.hasTracker
             THEN RecordErrorOp(progress, ch) ELSE progress)

\* chapter processing called on its own, with the chunk sequence of the chapter
InvokeChapter(ch) ==
    /\ pc = "idle"
    /\ book.pc = "none"
    /\ BeginChapter(ch)
    /\ UNCHANGED <<lastOp, clock, cfgVars, bookVars>>

InvokeChapterSplitRaises(ch) ==
    /\ pc = "idle"
    /\ book.pc = "none"
    /\ BeginChapterSplitRaises(ch)
    /\ UNCHANGED <<lastOp, clock, cfgVars, bookVars>>

\* the chunk at idx was translated: append, update_progress(chapter, i + 1, total).
\* update_progress is inside the try of the chunk: when its _save_progress
\* raises, the handler of the chunk calls record_error, whose _save_progress
\* raises ProgressError out of the handler; ChapterProcessor's outer handler
\* calls record_error once more, with the same end
ChunkDone(value, hist) ==
    /\ translated' = Append(translated, value)
    /\ last' = [status |-> "returned", exc |-> "", value |-> value, hist |-> hist,
                cursorBefore |-> GetChapterProgress(progress, chap), chunk |-> idx]
    /\ call' = NoCall
    /\ IF WriteFails
       THEN /\ Raise("ProgressError",
                     RecordErrors(UpdateProgressOp(progress, chap, idx + 1,
                                                   nChunks[chap], clock),
                                  chap, ErrorRecords(cfg.impl)))
            /\ UNCHANGED <<idx, failedChunk>>
       ELSE /\ progress' = IF cfg.hasTracker
                           THEN UpdateProgressOp(progress, chap, idx + 1, nChunks[chap], clock)
                           ELSE progress
            /\ disk' = IF cfg.hasTracker THEN SaveProgress(progress', disk) ELSE disk
            /\ idx' = idx + 1
            /\ UNCHANGED <<pc, exc, failedChunk>>

\* _translate_chunk raised e: record_error, raise TranslationError; when
\* record_error's _save_progress raises, ProgressError leaves the handler
ChunkFailed(e, hist) ==
    /\ last' = [status |-> "raised", exc |-> e, value |-> <<>>, hist |-> hist,
                cursorBefore |-> GetChapterProgress(progress, chap), chunk |-> idx]
    /\ failedChunk' = idx
    /\ call' = NoCall
    /\ Raise(IF WriteFails THEN "ProgressError" ELSE "TranslationError",
             IF cfg.hasTracker
             THEN RecordErrors(progress, chap, ErrorRecords(cfg.impl)) ELSE progress)
    /\ UNCHANGED <<translated, idx>>

InLoop ==
    /\ pc = "chunks"
    /\ idx < nChunks[chap]
    /\ ~AlreadyCompleted(cfg.impl, cfg.hasTracker, progress, chap, idx)

\* one llm.complete(prompt) and what follows from its outcome
LLMCall(out) ==
    /\ InLoop
    /\ call.attempt < cfg.max_retries
    /\ sent' = sent \cup {idx}
    /\ LET hist == Append(call.hist, out)
           text == stub[idx]
       IN IF ~AttemptFailed(cfg.impl, out, text)
          THEN ChunkDone(ResponseValue(text), hist)
          ELSE IF MayRetry(call.attempt, cfg.max_retries)
          THEN /\ call' = [attempt |-> call.attempt + 1, hist |-> hist,
                           slept |-> SleepFor(cfg.impl, out)]
               /\ UNCHANGED <<progress, disk, pc, exc, idx, translated, last, failedChunk>>
          ELSE ChunkFailed(FinalException(cfg.impl), hist)
    /\ UNCHANGED <<lastOp, clock, cfgVars, chap, cursor0, err0, content, bookVars>>

\* max_retries <= 0: the attempt loop is empty; translator.py falls through
\* to return "", chapter_processor.py to raise TranslationError
TranslateNoAttempt ==
    /\ InLoop
    /\ NoAttempt(cfg.max_retries)
    /\ IF cfg.impl = "translator"
       THEN ChunkDone(<<>>, <<>>)
       ELSE ChunkFailed("TranslationError", <<>>)
    /\ UNCHANGED <<lastOp, clock, cfgVars, chap, cursor0, err0, content, sent, bookVars>>

\* ChapterProcessor: the chunk was completed in an earlier run: continue
SkipChunk ==
    /\ pc = "chunks"
    /\ idx < nChunks[chap]
    /\ AlreadyCompleted(cfg.impl, cfg.hasTracker, progress, chap, idx)
    /\ idx' = idx + 1
    /\ UNCHANGED <<progress, disk, lastOp, clock, cfgVars, pc, chap, cursor0, err0, translated,
                   sent, call, last, exc, failedChunk, content, bookVars>>

\* the loop is over: ChapterProcessor completes the chapter; both join the
\* chunks. When complete_chapter's _save_progress raises, ChapterProcessor's
\* handler calls record_error, whose _save_progress raises ProgressError
FinishChapter ==
    /\ pc = "chunks"
    /\ idx >= nChunks[chap]
    /\ IF cfg.impl = "chapter_processor" /\ WriteFails
       THEN /\ Raise("ProgressError",
                     RecordErrorOp(CompleteChapterOp(progress, chap, clock), chap))
            /\ UNCHANGED content
       ELSE /\ pc' = "done"
            /\ content' = Join(translated)
            /\ progress' = IF cfg.impl = "chapter_processor" /\ cfg.hasTracker
                           THEN CompleteChapterOp(progress, chap, clock) ELSE progress
            /\ disk' = IF cfg.hasTracker THEN SaveProgress(progress', disk) ELSE disk
            /\ UNCHANGED exc
    /\ UNCHANGED <<lastOp, clock, cfgVars, chap, idx, cursor0, err0, translated, sent, call,
                   last, failedChunk, bookVars>>

InvReset ==
    /\ pc' = "idle"
    /\ chap' = 0
    /\ idx' = 0
    /\ cursor0' = 0
    /\ err0' = 0
    /\ translated' = <<>>
    /\ sent' = {}
    /\ call' = NoCall
    /\ last' = NoLast
    /\ exc' = ""
    /\ failedChunk' = -1
    /\ content' = <<>>

\* the caller of chapter processing has the result or the exception
ReturnToCaller ==
    /\ pc \in {"done", "raised"}
    /\ book.pc = "none"
    /\ InvReset
    /\ UNCHANGED <<progress, disk, lastOp, clock, cfgVars, bookVars>>

\* a caller of chapter processing starts the tracker: start_translation
JobStart ==
    /\ pc = "idle"
    /\ book.pc = "none"
    /\ cfg.hasTracker
    /\ progress' = StartTranslationOp(progress, MaxChapters, clock)
    /\ disk' = WriteProgress(progress', disk)
    /\ UNCHANGED <<lastOp, clock, cfgVars, invVars, bookVars>>

\* the process ends, at any point, and a new one is started on the same files:
\* ProgressTracker.__init__ loads the progress file
NewProcess ==
    /\ progress' = LoadProgress(disk)
    /\ InvReset
    /\ book' = NoBook
    /\ translated_chapters' = <<>>
    /\ UNCHANGED <<disk, lastOp, clock, cfgVars, cache>>

\* ---------------------------------------------------------- translate_book
\* cfg.impl = "translator": BookTranslator of translator.py (main.py uses it);
\* cfg.impl = "chapter_processor": BookTranslator of book_translator.py

FailedContent == <<"[Translation failed for this chapter]">>

\* list.sort(key=lambda x: x['number']) (stable)
RECURSIVE SortByNumber(_)
SortByNumber(chs) ==
    IF chs = <<>> THEN <<>>
    ELSE LET r == chs[Len(chs)]
             sorted == SortByNumber(SubSeq(chs, 1, Len(chs) - 1))
             k == Cardinality({i \in 1..Len(sorted) : sorted[i].number <= r.number})
         IN SubSeq(sorted, 1, k) \o <<r>> \o SubSeq(sorted, k + 1, Len(sorted))

\* faulty variant: the new record is put in front and the list is not sorted
AddOrUpdate_mut(chs, rec) == <<rec>> \o chs

\* translator.py: replace the record of that number, else append and sort
AddOrUpdate(chs, rec) ==
    IF \E i \in 1..Len(chs) : chs[i].number = rec.number
    THEN LET i == CHOOSE i \in 1..Len(chs) :
                    /\ chs[i].number = rec.number
                    /\ \A j \in 1..(i - 1) : chs[j].number # rec.number
         IN [chs EXCEPT ![i] = rec]
    ELSE SortByNumber(Append(chs, rec))

\* _extract_chapter_title: the title of the chapter's item
ChapterTitle(n) == <<"Chapter", Space>> \o StrOf(n)

\* f"Chapter {current_chapter} (Failed)"
FailedTitle(n) == ChapterTitle(n) \o <<Space, "(Failed)">>

\* the EPUB item of chapter n
Item(n) == <<"item", n>>

\* 'original_item': None
NoneItem == <<>>

\* what the cache file keeps of a record: original_item is left out
CacheData(chs) ==
    [i \in 1..Len(chs) |-> [number |-> chs[i].number, title |-> chs[i].title,
                            content |-> chs[i].content]]

\* the records made of the file's entries
CachedChapters(data) ==
    [i \in 1..Len(data) |-> [number |-> data[i].number, title |-> data[i].title,
                             content |-> data[i].content, original_item |-> NoneItem]]

\* faulty variant: the records are added to those the file has
SaveChapterCache_mut(chs, file) ==
    IF cfg.hasTracker
    THEN [exists |-> TRUE, valid |-> TRUE, chapters |-> file.chapters \o CacheData(chs)]
    ELSE file

\* _save_chapter_cache / save_chapters: only with a cache file (progress_file
\* given); the file is opened with 'w' and gets the records of this call
SaveChapterCache(chs, file) ==
    IF cfg.hasTracker
    THEN [exists |-> TRUE, valid |-> TRUE, chapters |-> CacheData(chs)]
    ELSE file

\* _load_chapter_cache / load_chapters: the sorted records of the file, if
\* there is one; when the file cannot be read or parsed the exception is
\* caught and the list is empty
LoadChapterCache(chs, file) ==
    IF cfg.hasTracker /\ file.exists
    THEN (IF file.valid THEN SortByNumber(CachedChapters(file.chapters)) ELSE <<>>)
    ELSE chs

InRange(b) == b.from <= b.cur /\ b.cur <= b.to

\* from_chapter and to_chapter are any numbers: also past the last chapter
ChapterArgs == 1..(MaxChapters + 1)

\* a new process constructs the BookTranslator and calls translate_book;
\* start_translation is called before the try: when its _save_progress raises,
\* ProgressError leaves translate_book
TranslateBook(from, to) ==
    /\ pc = "idle"
    /\ book.pc = "none"
    /\ progress' = IF cfg.hasTracker
                   THEN StartTranslationOp(LoadProgress(disk), MaxChapters, clock)
                   ELSE progress
    /\ disk' = IF cfg.hasTracker THEN WriteProgress(progress', disk) ELSE disk
    /\ IF WriteFails
       THEN /\ translated_chapters' = <<>>
            /\ book' = [pc |-> "failed", cur |-> 0, from |-> from, to |-> to,
                        cause |-> "ProgressError"]
       ELSE /\ translated_chapters' = IF cfg.impl = "translator"
                                      THEN LoadChapterCache(<<>>, cache) ELSE <<>>
            /\ book' = [pc |-> "loop", cur |-> 1, from |-> from, to |-> to, cause |-> ""]
    /\ UNCHANGED <<lastOp, clock, cfgVars, invVars, cache>>

AtChapter ==
    /\ book.pc = "loop"
    /\ pc = "idle"
    /\ book.cur <= MaxChapters

\* self.progress_tracker.is_chapter_completed(current_chapter): ProgressTracker
\* has no such method; the AttributeError reaches the except of translate_book
\* (book_translator.py saves the progress there), which raises TranslationError
BookSkipCheckRaises ==
    /\ AtChapter
    /\ InRange(book)
    /\ cfg.hasTracker
    /\ book' = [book EXCEPT !.pc = "failed", !.cause = "AttributeError"]
    /\ disk' = IF cfg.impl = "chapter_processor" THEN WriteProgress(progress, disk) ELSE disk
    /\ UNCHANGED <<progress, lastOp, clock, cfgVars, invVars, translated_chapters, cache>>

\* without a tracker the chapter is translated from chunk 0
BookInvokeChapter ==
    /\ AtChapter
    /\ InRange(book)
    /\ ~cfg.hasTracker
    /\ \/ BeginChapter(book.cur)
       \/ BeginChapterSplitRaises(book.cur)
    /\ book' = [book EXCEPT !.pc = "chapter"]
    /\ UNCHANGED <<lastOp, clock, cfgVars, translated_chapters, cache>>

\* current_chapter outside [from_chapter, to_chapter];
\* book_translator.py breaks out of the loop past to_chapter
BookOutOfRange ==
    /\ AtChapter
    /\ ~InRange(book)
    /\ book' = [book EXCEPT !.cur = IF cfg.impl = "chapter_processor" /\ book.to < book.cur
                                    THEN MaxChapters + 1 ELSE book.cur + 1]
    /\ UNCHANGED <<progress, disk, lastOp, clock, cfgVars, invVars, translated_chapters, cache>>

\* chapter processing returned: store the record (translator.py also completes
\* the chapter and saves the cache)
BookChapterDone ==
    /\ book.pc = "chapter"
    /\ pc = "done"
    /\ LET rec == IF cfg.impl = "translator"
                  THEN [number |-> book.cur, title |-> ChapterTitle(book.cur),
                        content |-> content, original_item |-> Item(book.cur)]
                  ELSE [number |-> book.cur, title |-> ChapterTitle(book.cur),
                        content |-> content]
       IN translated_chapters' = IF cfg.impl = "translator"
                                 THEN AddOrUpdate(translated_chapters, rec)
                                 ELSE Append(translated_chapters, rec)
    /\ progress' = IF cfg.impl = "translator" /\ cfg.hasTracker
                   THEN CompleteChapterOp(progress, book.cur, clock) ELSE progress
    /\ disk' = IF cfg.hasTracker THEN WriteProgress(progress', disk) ELSE disk
    /\ IF cfg.impl = "translator" /\ WriteFails
       THEN \* complete_chapter's _save_progress raises inside the try
            /\ book' = [book EXCEPT !.pc = "failed", !.cause = "ProgressError"]
            /\ UNCHANGED cache
       ELSE /\ cache' = IF cfg.impl = "translator"
                        THEN SaveChapterCache(translated_chapters', cache) ELSE cache
            /\ book' = [book EXCEPT !.pc = "loop", !.cur = book.cur + 1]
    /\ InvReset
    /\ UNCHANGED <<lastOp, clock, cfgVars>>

\* chapter processing raised: translator.py gives up the job; book_translator.py
\* stores a placeholder for a TranslationError and goes on
BookChapterRaised ==
    /\ book.pc = "chapter"
    /\ pc = "raised"
    /\ IF cfg.impl = "chapter_processor" /\ exc = "TranslationError"
       THEN /\ translated_chapters' =
                   Append(translated_chapters,
                          [number |-> book.cur, title |-> FailedTitle(book.cur),
                           content |-> FailedContent])
            /\ book' = [book EXCEPT !.pc = "loop", !.cur = book.cur + 1]
       ELSE /\ book' = [book EXCEPT !.pc = "failed", !.cause = exc]
            /\ UNCHANGED translated_chapters
    /\ InvReset
    /\ UNCHANGED <<progress, disk, lastOp, clock, cfgVars, cache>>

\* the loop is over: outputs are generated from the sorted records;
\* book_translator.py raises when there is no record at all
BookFinish ==
    /\ book.pc = "loop"
    /\ pc = "idle"
    /\ book.cur > MaxChapters
    /\ IF cfg.impl = "chapter_processor" /\ translated_chapters = <<>>
       THEN /\ book' = [book EXCEPT !.pc = "failed", !.cause = "TranslationError"]
            /\ UNCHANGED translated_chapters
       ELSE /\ book' = [book EXCEPT !.pc = "completed"]
            /\ translated_chapters' = IF cfg.impl = "translator"
                                      THEN SortByNumber(translated_chapters)
                                      ELSE translated_chapters
    /\ UNCHANGED <<progress, disk, lastOp, clock, cfgVars, invVars, cache>>

Next ==
    \/ JobStart
    \/ \E ch \in Chapters : InvokeChapter(ch)
    \/ \E ch \in Chapters : InvokeChapterSplitRaises(ch)
    \/ \E out \in Outcomes : LLMCall(out)
    \/ TranslateNoAttempt
    \/ SkipChunk
    \/ FinishChapter
    \/ ReturnToCaller
    \/ NewProcess
    \/ \E from \in ChapterArgs : \E to \in ChapterArgs : from <= to /\ TranslateBook(from, to)
    \/ BookSkipCheckRaises
    \/ BookInvokeChapter
    \/ BookOutOfRange
    \/ BookChapterDone
    \/ BookChapterRaised
    \/ BookFinish

Spec == Init /\ [][Next]_vars

\* ------------------------------------------------------ the chapter cache
\* save and load called on their own, with any list of records

\* the records a list passed to save can hold: a translated chapter with its
\* item, a chapter without content that came from the cache, a placeholder
CacheRecords ==
    UNION {{[number |-> n, title |-> ChapterTitle(n), content |-> <<"a">>,
             original_item |-> Item(n)],
            [number |-> n, title |-> ChapterTitle(n), content |-> <<>>,
             original_item |-> NoneItem],
            [number |-> n, title |-> FailedTitle(n), content |-> FailedContent,
             original_item |-> NoneItem]} : n \in Chapters}

RecordLists == UNION {[1..k -> CacheRecords] : k \in 0..MaxRecords}

\* save_chapters(chapters) / _save_chapter_cache() with that list; when the
\* file cannot be opened for writing the exception is caught and a warning
\* logged
SaveChapters(chs) ==
    /\ cacheOp.saves < MaxSaves
    /\ cache' = IF writable THEN SaveChapterCache(chs, cache) ELSE cache
    /\ translated_chapters' = chs
    /\ cacheOp' = [op |-> "save", records |-> chs, saves |-> cacheOp.saves + 1]
    /\ UNCHANGED <<progress, disk, lastOp, clock, cfg, nChunks, stub, chunker, writable, invVars, book>>

\* load_chapters() / _load_chapter_cache(): the result is the translator's list
LoadChapters ==
    /\ translated_chapters' = LoadChapterCache(translated_chapters, cache)
    /\ cacheOp' = [cacheOp EXCEPT !.op = "load"]
    /\ UNCHANGED <<progress, disk, lastOp, clock, cfg, nChunks, stub, chunker, writable, invVars, book,
                   cache>>

InitCache ==
    /\ progress = NoProgress
    /\ disk = NoFile
    /\ lastOp = NoOp
    /\ clock = 0
    /\ cfg \in [impl : {"translator"}, hasTracker : BOOLEAN, max_retries : {1}]
    /\ nChunks = [c \in Chapters |-> 0]
    /\ stub = [i \in 0..(MaxChunks - 1) |-> <<"a">>]
    /\ chunker = NoSplit
    /\ cacheOp = NoCacheOp
    /\ writable = TRUE
    /\ InvInit

CacheNext ==
    \/ \E chs \in RecordLists : SaveChapters(chs)
    \/ LoadChapters

SpecCache == InitCache /\ [][CacheNext]_vars

\* the cache file is damaged (cut short, overwritten): json.load will raise
DamageCacheFile ==
    /\ cache.exists
    /\ cache.valid
    /\ cache' = [exists |-> TRUE, valid |-> FALSE, chapters |-> <<>>]
    /\ UNCHANGED <<progress, disk, lastOp, clock, cfgVars, invVars, book,
                   translated_chapters>>

\* the files can no longer be written (disk full, permissions changed)
WritesStartFailing ==
    /\ writable
    /\ writable' = FALSE
    /\ UNCHANGED <<progress, disk, lastOp, clock, cfg, nChunks, stub, chunker, cacheOp,
                   invVars, bookVars>>

\* the files can be written again
WritesRecover ==
    /\ ~writable
    /\ writable' = TRUE
    /\ UNCHANGED <<progress, disk, lastOp, clock, cfg, nChunks, stub, chunker, cacheOp,
                   invVars, bookVars>>

CacheFaultNext ==
    \/ \E chs \in RecordLists : SaveChapters(chs)
    \/ LoadChapters
    \/ DamageCacheFile
    \/ WritesStartFailing
    \/ WritesRecover

\* save and load with a cache file that can get damaged between the calls
SpecCacheFaults == InitCache /\ [][CacheFaultNext]_vars


\* ------------------------------------------------------------------ claims

\* content of one uninterrupted run over all the chunks of the chapter
FullRunContent(ch) ==
    Join([j \in 1..nChunks[ch] |-> ResponseValue(stub[j - 1])])

Resumed == cfg.hasTracker /\ 0 < cursor0 /\ cursor0 < nChunks[chap]

\* C1: a run resumed at start_chunk_index = k (0 < k < n) returns the same
\* content as one uninterrupted run: the translations of chunks 0..n-1 joined
\* in order
C1_ResumedContentIsFullContent ==
    (pc = "done" /\ Resumed /\ cfg.max_retries >= 1) => content = FullRunContent(chap)

\* C2: in an invocation that found completed_chunks = k persisted, every chunk
\* sent to the completion service has index >= k
C2_NoChunkBelowCursorSent ==
    cfg.hasTracker => \A j \in sent : j >= cursor0

C2_Witness ==
    /\ Resumed
    /\ pc = "done"
    /\ sent # {}

\* C3: translate_book with a tracker skips a chapter of the range that the
\* tracker records as completed and goes on without failing
C3_CompletedChapterSkipped ==
    ~ ( /\ book.pc = "failed"
        /\ cfg.hasTracker
        /\ InRange(book)
        /\ book.cur \in DOMAIN progress.chapters
        /\ IsCompleted(progress.chapters[book.cur]) )

AllCallsFailed(h) == \A i \in 1..Len(h) : h[i] \in {"rate_limit", "other"}

\* C4: when every call to the completion service fails, the translate call
\* makes exactly max_retries calls, raises TranslationError, and
\* completed_chunks keeps the value it had before the call
C4_AllFailedRaisesTranslationError ==
    (last.status # "none" /\ cfg.max_retries >= 1 /\ AllCallsFailed(last.hist)) =>
        /\ last.status = "raised"
        /\ last.exc = "TranslationError"
        /\ Len(last.hist) = cfg.max_retries
        /\ GetChapterProgress(progress, chap) = last.cursorBefore

\* the first j calls raised a rate-limit error and call j + 1 returned text
RateLimitedThenText(h, j) ==
    /\ j < Len(h)
    /\ j < cfg.max_retries
    /\ \A i \in 1..j : h[i] = "rate_limit"
    /\ h[j + 1] = "text"

\* C5 as stated: rate-limit errors on the first j calls and text on call j + 1
\* (j < max_retries): the translate call returns that text after exactly
\* j + 1 calls
C5_ReturnsThatText ==
    \A j \in 0..MaxRetriesBound :
        (last.status # "none" /\ RateLimitedThenText(last.hist, j)) =>
            /\ last.status = "returned"
            /\ last.value = stub[last.chunk]
            /\ Len(last.hist) = j + 1

\* C5 as amended: rate-limit errors on the first j calls and, on call j + 1,
\* a text that is not empty once stripped: the translate call returns the
\* stripped text after exactly j + 1 calls; and a translate call whose calls
\* all failed raises only after max_retries calls
C5_ReturnsStrippedText ==
    /\ \A j \in 0..MaxRetriesBound :
        ( /\ last.status # "none"
          /\ RateLimitedThenText(last.hist, j)
          /\ Strip(stub[last.chunk]) # <<>> ) =>
            /\ last.status = "returned"
            /\ last.value = Strip(stub[last.chunk])
            /\ Len(last.hist) = j + 1
    /\ (last.status = "raised" /\ AllCallsFailed(last.hist)) =>
            Len(last.hist) >= cfg.max_retries

C5_Witness ==
    /\ last.status = "returned"
    /\ Len(last.hist) >= 2
    /\ RateLimitedThenText(last.hist, Len(last.hist) - 1)
    /\ last.value # <<>>
    /\ stub[last.chunk] # last.value

\* C6: when the translation of chunk i fails, the error is recorded with the
\* tracker, no chunk after i is sent, TranslationError is propagated and the
\* persisted completed_chunks is i
C6_FailedChunkAbortsChapter ==
    (pc = "raised" /\ failedChunk >= 0 /\ cfg.hasTracker) =>
        /\ exc = "TranslationError"
        /\ ErrorCount(LoadProgress(disk), chap) > err0
        /\ \A j \in sent : j <= failedChunk
        /\ GetChapterProgress(LoadProgress(disk), chap) = failedChunk
        /\ GetChapterProgress(progress, chap) = failedChunk

C6_Witness ==
    /\ pc = "raised"
    /\ cfg.hasTracker
    /\ failedChunk >= 1
    /\ Len(last.hist) = cfg.max_retries
    /\ cfg.max_retries >= 2
    /\ failedChunk \in sent

\* C7: whatever the sequence of tracker calls, every ChapterProgress has
\* completed_chunks <= total_chunks
C7_CompletedChunksAtMostTotal ==
    \A ch \in DOMAIN progress.chapters :
        progress.chapters[ch].completed_chunks <= progress.chapters[ch].total_chunks

\* C8: after every tracker operation, completed_chapters is the number of
\* chapters whose is_completed is true
C8_CompletedChaptersIsCount ==
    progress.started => progress.completed_chapters = CountCompleted(progress)

\* a step of one job run: the tracker is started before and after, and the step
\* neither begins a job (__init__, start_translation) nor ends one (cleanup)
SameRun ==
    /\ progress.started
    /\ progress'.started
    /\ lastOp'.op \notin {"__init__", "start_translation", "cleanup"}

\* C9: within one run, completed_chapters never decreases from one tracker
\* operation to the next
C9_CompletedChaptersNeverDecreases ==
    [][SameRun => progress'.completed_chapters >= progress.completed_chapters]_vars

\* C10: once a chapter is completed (completed_chunks = total_chunks), no
\* later tracker operation makes it not completed
C10_CompletedStaysCompleted ==
    [][SameRun =>
        \A ch \in DOMAIN progress.chapters :
            progress.chapters[ch].completed_chunks = progress.chapters[ch].total_chunks
            => /\ ch \in DOMAIN progress'.chapters
               /\ IsCompleted(progress'.chapters[ch])]_vars

\* C11: start_chapter(ch, n) on a chapter that has a ChapterProgress keeps its
\* completed_chunks, error_count and start_time; of that chapter only
\* total_chunks (now n) and last_update_time (now the current time) change, no
\* other chapter changes, and the job keeps its counts and its start_time
C11_StartChapterKeepsProgress ==
    [][\A ch \in Chapters, n \in ChunkCounts :
          (StartChapter(ch, n) /\ progress.started /\ ch \in DOMAIN progress.chapters) =>
              /\ DOMAIN progress'.chapters = DOMAIN progress.chapters
              /\ progress'.chapters[ch] =
                    [progress.chapters[ch] EXCEPT !.total_chunks = n,
                                                  !.last_update_time = clock]
              /\ \A other \in DOMAIN progress.chapters \ {ch} :
                    progress'.chapters[other] = progress.chapters[other]
              /\ progress'.total_chapters = progress.total_chapters
              /\ progress'.completed_chapters = progress.completed_chapters
              /\ progress'.start_time = progress.start_time
              /\ GetChapterProgress(progress', ch) = GetChapterProgress(progress, ch)]_vars

\* start_chapter has just returned for a chapter that had chunks completed and
\* an error recorded at an earlier time
C11_Witness ==
    /\ lastOp = Called("start_chapter", FALSE)
    /\ \E ch \in DOMAIN progress.chapters :
          /\ progress.current_chapter = ch
          /\ progress.chapters[ch].completed_chunks > 0
          /\ progress.chapters[ch].error_count > 0
          /\ progress.chapters[ch].start_time < progress.chapters[ch].last_update_time
          /\ progress.chapters[ch].last_update_time = clock

MutatingCalls ==
    {"start_translation", "start_chapter", "update_progress", "complete_chapter",
     "record_error"}

\* C12: after a mutating tracker call has returned, the progress file holds
\* the in-memory state: it is the serialised state, and loading it gives the
\* state back, so a new process starts from the last returned call
C12_FileHoldsMemoryState ==
    (lastOp.op \in MutatingCalls /\ ~lastOp.raised /\ progress.started) =>
        /\ disk.exists
        /\ disk = Serialize(progress)
        /\ LoadProgress(disk) = progress

\* update_progress has returned with two chapters tracked and chunks completed
C12_Witness ==
    /\ lastOp = Called("update_progress", FALSE)
    /\ Cardinality(DOMAIN progress.chapters) = 2
    /\ disk.exists
    /\ \E ch \in DOMAIN progress.chapters :
          /\ progress.chapters[ch].completed_chunks > 0
          /\ disk.chapters[StrOf(ch)].completed_chunks = progress.chapters[ch].completed_chunks


\* C13: when translate_book has completed (every chapter in range processed,
\* outputs generated) the progress file is gone, and when it has failed the
\* progress file is there
C13_FileDeletedOnSuccessKeptOnFailure ==
    cfg.hasTracker =>
        /\ book.pc = "completed" => ~disk.exists
        /\ book.pc = "failed" => disk.exists


\* C14: update_progress raises ProgressError and leaves the state and the file
\* as they were when the translation is not started, or when the chapter is
\* unknown and total_chunks is not supplied; for an unknown chapter with
\* total_chunks supplied it returns, having created the chapter with that
\* total and with completed_chunks as given
C14_UpdateProgressRaisesOrCreates ==
    [][\A ch \in Chapters, c \in ChunkCounts, n \in ChunkCounts \cup {NoneArg} :
          UpdateProgress(ch, c, n) =>
              /\ (~progress.started \/ (ch \notin DOMAIN progress.chapters /\ n = NoneArg)) =>
                    /\ lastOp' = Called("update_progress", TRUE)
                    /\ progress' = progress
                    /\ disk' = disk
              /\ (progress.started /\ ch \notin DOMAIN progress.chapters /\ n # NoneArg) =>
                    /\ lastOp' = Called("update_progress", FALSE)
                    /\ DOMAIN progress'.chapters = DOMAIN progress.chapters \cup {ch}
                    /\ progress'.chapters[ch].completed_chunks = c
                    /\ progress'.chapters[ch].total_chunks = n
                    /\ progress'.chapters[ch].error_count = 0
                    /\ progress'.current_chapter = ch]_vars

\* update_progress has raised on a started tracker that tracks another chapter
\* with completed chunks: the chapter was unknown and no total was supplied
C14_Witness ==
    /\ lastOp = Called("update_progress", TRUE)
    /\ progress.started
    /\ disk.exists
    /\ \E ch \in DOMAIN progress.chapters :
          /\ progress.chapters[ch].completed_chunks > 0
          /\ progress.current_chapter = ch
    /\ DOMAIN progress.chapters # Chapters


C16_EmptyResponseIsFailedAttempt ==
    (/\ last.status # "none"
     /\ last.hist # <<>>
     /\ last.hist[Len(last.hist)] = "text"
     /\ ResponseValue(stub[last.chunk]) = <<>>) =>
        /\ last.status = "raised"
        /\ last.value = <<>>
        /\ Len(last.hist) = cfg.max_retries
        /\ cfg.hasTracker => GetChapterProgress(progress, chap) = last.cursorBefore


\* C17: for a text with a non-whitespace character, and any config, split_text
\* returns (raises nothing) and the sequence it returns has at least one chunk
C17_SplitReturnsAChunk ==
    (chunker.pc \in {"returned", "raised"} /\ ~IsBlank(chunker.text)) =>
        /\ chunker.pc = "returned"
        /\ chunker.result.raised = ""
        /\ Len(chunker.result.chunks) >= 1


\* the texts that are empty or have whitespace only
BlankTexts == {t \in ChunkerTexts : \A i \in 1..Len(t) : t[i] \in Whitespace}

BlankSplitsToNothing ==
    \A t \in BlankTexts, c \in ChunkerConfigs : SplitText(t, c) = Returned(<<>>)

\* C18: split_text of an empty or whitespace-only text returns no chunk, and
\* chapter processing of such a chapter (no chunk), with the tracker started
\* if there is one, ends without any call to the completion service and
\* without an exception, with empty content; the record stored for the chapter
\* has empty content
C18_BlankChapterGivesEmptyContent ==
    /\ BlankSplitsToNothing
    /\ (pc \in {"done", "raised"} /\ nChunks[chap] = 0 /\ (cfg.hasTracker => progress.started)) =>
          /\ pc = "done"
          /\ exc = ""
          /\ sent = {}
          /\ last = NoLast
          /\ content = <<>>
    /\ \A i \in 1..Len(translated_chapters) :
          nChunks[translated_chapters[i].number] = 0 => translated_chapters[i].content = <<>>

\* _translate_chapter has returned for a chapter without chunks, with a
\* started tracker that now tracks the chapter with total_chunks = 0
C18_Witness ==
    /\ pc = "done"
    /\ nChunks[chap] = 0
    /\ cfg.impl = "translator"
    /\ cfg.hasTracker
    /\ progress.started
    /\ chap \in DOMAIN progress.chapters
    /\ progress.chapters[chap].total_chunks = 0
    /\ content = <<>>


\* number, title and content of a record
Triple(r) == <<r.number, r.title, r.content>>

Occurrences(chs, t) == Cardinality({i \in 1..Len(chs) : Triple(chs[i]) = t})

\* C20: with a cache file, what load returns after a save is, record for
\* record, the number, title and content of the list passed to the most recent
\* save (as many records, each as often as in that list, none from an earlier
\* save), in ascending order of chapter number, without the item handles
C20_LoadReturnsLastSave ==
    (cacheOp.op = "load" /\ cacheOp.saves > 0 /\ cfg.hasTracker) =>
        /\ Len(translated_chapters) = Len(cacheOp.records)
        /\ \A i \in 1..Len(cacheOp.records) :
              Occurrences(translated_chapters, Triple(cacheOp.records[i])) =
                  Occurrences(cacheOp.records, Triple(cacheOp.records[i]))
        /\ \A i, j \in 1..Len(translated_chapters) :
              i < j => translated_chapters[i].number <= translated_chapters[j].number
        /\ \A i \in 1..Len(translated_chapters) :
              translated_chapters[i].original_item = NoneItem

\* load has returned after a second save whose list had two records not in
\* order, the first with its item handle
C20_Witness ==
    /\ cacheOp.op = "load"
    /\ cacheOp.saves = 2
    /\ cfg.hasTracker
    /\ Len(cacheOp.records) = 2
    /\ cacheOp.records[1].number > cacheOp.records[2].number
    /\ cacheOp.records[1].original_item # NoneItem
    /\ Len(translated_chapters) = 2
    /\ translated_chapters[1].number < translated_chapters[2].number
    /\ translated_chapters[2].content = cacheOp.records[1].content


\* C21: a translate_book of translator.py that found no usable chapter cache
\* (missing or damaged file) and has ended has, for every chapter of its range
\* that the loop came to, either a record made by chapter processing or the
\* TranslationError of that chapter's translation as the cause of its failure
C21_NoCacheFallsBackToTranslation ==
    (/\ cfg.impl = "translator"
     /\ cfg.hasTracker
     /\ book.pc \in {"completed", "failed"}
     /\ ~(cache.exists /\ cache.valid)) =>
        \A c \in Chapters :
            (book.from <= c /\ c <= book.to /\ c <= book.cur) =>
                \/ \E i \in 1..Len(translated_chapters) : translated_chapters[i].number = c
                \/ book.pc = "failed" /\ book.cur = c /\ book.cause = "TranslationError"


\* ------------------------------------------------- jobs whose writes may fail
\* a translator with a progress file: at any point the progress file and the
\* cache file may stop being writable, and become writable again
FaultNext ==
    \/ JobStart
    \/ \E ch \in Chapters : InvokeChapter(ch)
    \/ \E ch \in Chapters : InvokeChapterSplitRaises(ch)
    \/ \E out \in Outcomes : LLMCall(out)
    \/ TranslateNoAttempt
    \/ SkipChunk
    \/ FinishChapter
    \/ ReturnToCaller
    \/ NewProcess
    \/ \E from \in ChapterArgs : \E to \in ChapterArgs : from <= to /\ TranslateBook(from, to)
    \/ BookSkipCheckRaises
    \/ BookOutOfRange
    \/ BookFinish
    \/ WritesStartFailing
    \/ WritesRecover

InitFaults ==
    /\ Init
    /\ cfg.hasTracker
    /\ \A i \in DOMAIN stub : stub[i] = <<"a">>

SpecFaults == InitFaults /\ [][FaultNext]_vars

\* C22: chapter processing whose last _translate_chunk call returned a
\* translation has not ended in an exception: a progress file that cannot be
\* written does not turn the translated chunk into a failure of the chapter
C22_WriteFailureDoesNotAbort ==
    (pc = "raised" /\ last.chunk = idx) => last.status # "returned"


\* ------------------------------------------- the tracker and a damaged file
\* the progress file is damaged (cut short, overwritten): load_progress will
\* raise ProgressError
DamageProgressFile ==
    /\ disk.exists
    /\ disk.valid
    /\ disk' = DamagedFile
    /\ UNCHANGED <<progress, lastOp, clock, cfgVars, invVars, bookVars>>

TrackerFaultNext ==
    \/ \E total \in Chapters : StartTranslation(total)
    \/ \E ch \in Chapters, n \in ChunkCounts : StartChapter(ch, n)
    \/ \E ch \in Chapters, c \in ChunkCounts, n \in ChunkCounts \cup {NoneArg} :
          UpdateProgress(ch, c, n)
    \/ \E ch \in Chapters : CompleteChapter(ch)
    \/ \E ch \in Chapters : RecordError(ch)
    \/ Construct
    \/ Cleanup
    \/ DamageProgressFile

SpecTrackerFaults == InitTracker /\ [][TrackerFaultNext]_vars

\* C23: the construction of a tracker on a progress file that exists and cannot
\* be loaded raises nothing and leaves the tracker without a state, and the
\* start_translation that finds the tracker without a state makes a fresh one:
\* completed_chapters = 0 and no chapter entries
C23_UnloadableFileStartsFresh ==
    [][/\ (Construct /\ disk = DamagedFile) =>
             (progress' = NoProgress /\ ~lastOp'.raised)
       /\ \A total \in Chapters :
             (progress = NoProgress /\ StartTranslation(total)) =>
                 /\ ~lastOp'.raised
                 /\ progress'.started
                 /\ progress'.completed_chapters = 0
                 /\ DOMAIN progress'.chapters = {}
                 /\ progress'.total_chapters = total]_vars

\* a tracker that has just been constructed on a damaged file: no state
C23_Witness == lastOp.op = "__init__" /\ disk = DamagedFile /\ progress = NoProgress


\* ascending by chapter number
SortedByNumber(chs) ==
    \A i \in 1..Len(chs) : \A j \in 1..Len(chs) : i < j => chs[i].number <= chs[j].number

PersistedChunks(file) == GetChapterProgress(LoadProgress(file), chap)

\* C25: within one invocation of chapter processing every chunk sent to the
\* completion service has an index above those of all chunks sent before it
\* (a retry sends the same chunk again), every chunk whose translation returned
\* raises the persisted completed_chunks of the chapter by exactly one, to its
\* index plus one, and with a tracker the persisted completed_chunks is at every
\* point the number of leading chunks translated: those of earlier runs and
\* those of this invocation
C25_ChunksInOrderCursorCountsThem ==
    [][/\ \A out \in Outcomes :
             LLMCall(out) =>
                 \A j \in sent : j < idx \/ (j = idx /\ call.attempt > 0)
       /\ (cfg.hasTracker /\ pc = "chunks" /\ Len(translated') = Len(translated) + 1) =>
             /\ PersistedChunks(disk') = PersistedChunks(disk) + 1
             /\ PersistedChunks(disk') = idx + 1
       /\ (cfg.hasTracker /\ pc' \in {"chunks", "done", "raised"}) =>
             (PersistedChunks(disk))' = cursor0' + Len(translated')]_vars

\* the second chunk of a chapter has been translated after the first, both in
\* this invocation, and the progress file counts two
C25_Witness ==
    /\ cfg.hasTracker
    /\ pc = "chunks"
    /\ cursor0 = 0
    /\ sent = {0, 1}
    /\ Len(translated) = 2
    /\ PersistedChunks(disk) = 2


\* C26: complete_chapter on a chapter the tracker knows sets that chapter's
\* completed_chunks to its total_chunks, leaves completed_chunks and
\* total_chunks of every other chapter as they were, and sets completed_chapters
\* to the number of chapters whose completed_chunks has reached total_chunks
C26_CompleteChapterSetsCursorAndCount ==
    [][\A ch \in Chapters :
          (/\ CompleteChapter(ch)
           /\ progress.started
           /\ ch \in DOMAIN progress.chapters) =>
              /\ DOMAIN progress'.chapters = DOMAIN progress.chapters
              /\ progress'.chapters[ch].total_chunks = progress.chapters[ch].total_chunks
              /\ progress'.chapters[ch].completed_chunks = progress.chapters[ch].total_chunks
              /\ \A c \in DOMAIN progress.chapters \ {ch} :
                    /\ progress'.chapters[c].completed_chunks =
                           progress.chapters[c].completed_chunks
                    /\ progress'.chapters[c].total_chunks = progress.chapters[c].total_chunks
              /\ progress'.completed_chapters =
                     Cardinality({c \in DOMAIN progress'.chapters :
                                     progress'.chapters[c].completed_chunks >=
                                         progress'.chapters[c].total_chunks})]_vars

\* complete_chapter has completed chapter 1 of two known chapters; chapter 2 is
\* still open
C26_Witness ==
    /\ lastOp = Called("complete_chapter", FALSE)
    /\ progress.started
    /\ DOMAIN progress.chapters = {1, 2}
    /\ progress.chapters[1].total_chunks = 2
    /\ progress.chapters[1].completed_chunks = 2
    /\ progress.chapters[2].completed_chunks < progress.chapters[2].total_chunks
    /\ progress.completed_chapters = 1


\* ceil(n / d) for n >= 0 and d > 0: the least k with k * d >= n
CeilDiv(n, d) == CHOOSE k \in 0..n : k * d >= n /\ \A j \in 0..(k - 1) : j * d < n

\* max(1, ceil(length / (max_chunk_size - overlap_size)))
QuotientEstimate(text, config) ==
    LET q == CeilDiv(Len(text), config.max_chunk_size - config.overlap_size)
    IN IF q > 1 THEN q ELSE 1

\* C27 as stated: estimate_chunks returns 0 for the empty text and, for every
\* text that is not empty, max(1, ceil(length / (max_chunk_size - overlap_size)))
C27_EstimateIsQuotient ==
    (chunker.pc = "estimated" /\ chunker.config.overlap_size < chunker.config.max_chunk_size) =>
        /\ chunker.text = <<>> => chunker.estimate = 0
        /\ chunker.text # <<>> =>
              chunker.estimate = QuotientEstimate(chunker.text, chunker.config)

\* C27 amended: estimate_chunks returns 0 for the empty text, 1 for a text that
\* is not empty and no longer than max_chunk_size, and for a longer text, with
\* overlap_size < max_chunk_size, max(1, ceil(length / (max_chunk_size - overlap_size)))
C27_EstimateIsOneOrQuotient ==
    (chunker.pc = "estimated" /\ chunker.config.overlap_size < chunker.config.max_chunk_size) =>
        /\ chunker.text = <<>> => chunker.estimate = 0
        /\ (chunker.text # <<>> /\ Len(chunker.text) <= chunker.config.max_chunk_size) =>
              chunker.estimate = 1
        /\ Len(chunker.text) > chunker.config.max_chunk_size =>
              chunker.estimate = QuotientEstimate(chunker.text, chunker.config)

\* an estimate above 1: a text of three characters with max_chunk_size = 2 and
\* overlap_size = 1
C27_Witness ==
    /\ chunker.pc = "estimated"
    /\ Len(chunker.text) = 3
    /\ chunker.config.max_chunk_size = 2
    /\ chunker.config.overlap_size = 1
    /\ chunker.estimate = 3


\* C28: for translator.py's BookTranslator, every chapter that the progress
\* file records as completed (completed_chunks >= total_chunks) has a record of
\* its number in the chapter-cache file; the files are those a process leaves
\* behind when it ends at this point
C28_CompletedChaptersAreCached ==
    cfg.impl = "translator" =>
        \A c \in Chapters :
            LET p == LoadProgress(disk)
            IN (p.started /\ c \in DOMAIN p.chapters /\ IsCompleted(p.chapters[c])) =>
                  /\ cache.exists
                  /\ cache.valid
                  /\ \E i \in 1..Len(cache.chapters) : cache.chapters[i].number = c


\* C29: a finished _translate_chunk call none of whose completion-service calls
\* returned a response (with max_retries = 0 there is no call at all) has
\* raised instead of returning a value, chapter processing has ended with
\* TranslationError, and the chapter's cursor is where it was before the call
C29_NoResponseNoSuccess ==
    (/\ last.status # "none"
     /\ \A i \in 1..Len(last.hist) : last.hist[i] # "text") =>
        /\ last.status = "raised"
        /\ pc = "raised"
        /\ exc = "TranslationError"
        /\ cfg.hasTracker => GetChapterProgress(progress, chap) = last.cursorBefore


\* C30: chapter processing that ended because the translation of one chunk
\* failed has raised the error_count of the chapter by exactly one over its
\* value when the invocation began
C30_FailedChunkCountsOneError ==
    (pc = "raised" /\ failedChunk >= 0 /\ cfg.hasTracker) =>
        /\ ErrorCount(progress, chap) = err0 + 1
        /\ ErrorCount(LoadProgress(disk), chap) = err0 + 1

====
